---- MODULE Spec2Model ----
(***************************************************************************)
(* The host launcher of krun (crates/krun/src/bin/krun.rs, `main`) as a    *)
(* state machine: a number of launcher processes are started on one host   *)
(* and on one control port; each runs `main` step by step.  The            *)
(* hypervisor library, the network backend, the CPU topology queries and   *)
(* the operating system are the environment: every call into them returns  *)
(* one of the results its interface allows, chosen nondeterministically.   *)
(***************************************************************************)
EXTENDS Integers, Sequences, FiniteSets, TLC

(***************************************************************************)
(* Bounds of the model.                                                    *)
(***************************************************************************)
\* Number of launcher processes started concurrently on the control port.
NumProcs == 2
\* Largest CPU group of the enumerated CPU lists (u8 holds at most 255).
MaxGroupLen == 256
\* The small host RAM totals 0..MaxSmallRam (MiB) are all enumerated.
MaxSmallRam == 6

Procs == 1..NumProcs

(***************************************************************************)
(* Program constants.                                                      *)
(***************************************************************************)
\* cmp::min(.., MiB::from(32768))
RamCeilingMiB == 32768
\* `num_vcpus` is an u8: `as u8` keeps the value modulo 2^8.
U8Modulus == 256
\* Guest vsock ports of the optional attachments.
PulsePort == 3333
HidpipePort == 3334
X11Port == 6000
\* Exit status of the process: `main` returned Ok(()), `main` returned Err,
\* `main` panicked; NoExit while the process has not ended.
ExitOk == 0
ExitErr == 1
ExitPanic == 101
NoExit == 255
\* No process holds the lock file.
NoOwner == 0

DefaultDisks == << "/usr/share/fex-emu/RootFS/default.erofs",
                   "/usr/share/fex-emu/overlays/mesa.erofs" >>

(***************************************************************************)
(* Inputs: command line options, process identity, state of the host.      *)
(***************************************************************************)
NoMem == [some |-> FALSE, v |-> 0]
SomeMem(m) == [some |-> TRUE, v |-> m]

\* A CPU group: the cores lo, lo+1, .., lo+n-1.
CpuGroup(lo, n) == [i \in 1..n |-> lo + i - 1]

GroupLens == {1, 3, 255, MaxGroupLen}
CpuLists ==
    {<< >>}
    \cup {<<CpuGroup(0, n)>> : n \in GroupLens}
    \cup {<<CpuGroup(0, n), CpuGroup(n, m)>> : n \in {1, 3}, m \in GroupLens}

\* Results of the topology queries (krun::cpu): an error, or a CPU list.
QueryErr == [ok |-> FALSE, list |-> << >>]
QueryOk(l) == [ok |-> TRUE, list |-> l]
PerfResults == {QueryErr, QueryOk(<<CpuGroup(4, 4)>>)}
FallbackResults == {QueryErr, QueryOk(<<CpuGroup(0, 2), CpuGroup(2, 2)>>)}

RamTotals == (0..MaxSmallRam) \cup {16384, 40959, 40960, 40961, 65536}
Mems == {NoMem, SomeMem(512), SomeMem(40000)}

ImageA == "/img/a.erofs"
ImageB == "/img/b.erofs"
ImageLists == {<< >>, <<ImageA>>, <<ImageB>>, <<ImageA, ImageB>>, <<ImageB, ImageA>>}
ImagePaths == {ImageA, ImageB, DefaultDisks[1], DefaultDisks[2]}

PulsePath == "$XDG_RUNTIME_DIR/pulse/native"
HidpipePath == "$XDG_RUNTIME_DIR/hidpipe"

\* DISPLAY values, as sequences of characters.
LocalDisplay == <<":", "0">>
RemoteDisplay == <<"h", ":", "0">>

DefaultOptions ==
    [ uid          |-> 1000,
      euid         |-> 1000,
      gid          |-> 1000,
      cpu_list     |-> << >>,
      mem          |-> NoMem,
      fex_images   |-> << >>,
      passt_socket |-> FALSE,
      command      |-> "cmd",
      command_args |-> << >>,
      server_port  |-> 3334 ]

\* The directories in which find_krun_exec (krun::env) may find an executable.
KrunExecDirs == {"/usr/bin/", "/usr/local/bin/"}

\* The maps prepare_env_vars (krun::env) may return: name to value.
EnvValues ==
    [k \in {"TERM", "HOME", "KRUN_SERVER_PORT"} |->
        CASE k = "TERM" -> <<"xterm">>
          [] k = "HOME" -> <<"/home/alice">>
          [] k = "KRUN_SERVER_PORT" -> <<"9">>]
PreparedEnvs == {[k \in ks |-> EnvValues[k]] : ks \in SUBSET DOMAIN EnvValues}

\* Paths NamedTempFile::new() may choose.
TempPaths == {"/tmp/.tmpAAAAAA", "/tmp/.tmpBBBBBB"}

DefaultHost ==
    [ ram_total   |-> 16384,
      exists      |-> {DefaultDisks[1], DefaultDisks[2], PulsePath},
      xdg_set     |-> TRUE,
      display_set |-> TRUE,
      display     |-> LocalDisplay,
      x11_sockets |-> {<<"0">>},
      user_set    |-> TRUE,
      user        |-> "alice",
      exec_dirs   |-> {"/usr/bin/"},
      prepared    |-> {[k \in {"TERM"} |-> EnvValues[k]]},
      temp_paths  |-> {"/tmp/.tmpAAAAAA"},
      nofile_cur  |-> 1024,
      nofile_max  |-> 4096 ]

\* Options that give the CPU list and the memory explicitly.
SizedOptions == [DefaultOptions EXCEPT !.cpu_list = <<CpuGroup(0, 2)>>,
                                      !.mem = SomeMem(512)]

OnlyFirst(o) == [p \in Procs |-> IF p = 1 THEN o ELSE DefaultOptions]

\* The input cases: each varies one group of inputs and keeps the others at
\* their defaults.  `started` is the set of launchers that are started.
\* The identity of the first launcher varies; with its default identity
\* all launchers are started.
IdentityCases ==
    { [options |-> [p \in Procs |->
                      IF p = 1
                      THEN [SizedOptions EXCEPT !.uid = id[1], !.euid = id[2]]
                      ELSE SizedOptions],
       host    |-> DefaultHost,
       started |-> IF id = <<1000, 1000>> THEN Procs ELSE {1}]
      : id \in {<<1000, 1000>>, <<0, 1000>>, <<1000, 0>>, <<0, 0>>} }

CpuCases ==
    { [options |-> OnlyFirst([DefaultOptions EXCEPT !.cpu_list = l,
                                                    !.mem = SomeMem(512)]),
       host    |-> DefaultHost,
       started |-> {1}]
      : l \in CpuLists }

RamCases ==
    { [options |-> OnlyFirst([DefaultOptions EXCEPT !.mem = m]),
       host    |-> [DefaultHost EXCEPT !.ram_total = t],
       started |-> {1}]
      : m \in Mems, t \in RamTotals }

DiskCases ==
    { [options |-> OnlyFirst([DefaultOptions EXCEPT !.fex_images = l,
                                                    !.mem = SomeMem(512)]),
       host    |-> [DefaultHost EXCEPT !.exists = e \cup {PulsePath}],
       started |-> {1}]
      : l \in ImageLists, e \in SUBSET ImagePaths }

AttachCases ==
    { [options |-> OnlyFirst([DefaultOptions EXCEPT !.passt_socket = s,
                                                    !.mem = SomeMem(512)]),
       host    |-> [DefaultHost EXCEPT !.exists = e,
                                       !.xdg_set = x,
                                       !.display_set = d[1],
                                       !.display = d[2],
                                       !.x11_sockets = xs,
                                       !.user_set = u],
       started |-> {1}]
      : s \in BOOLEAN, e \in SUBSET {PulsePath, HidpipePath}, x \in BOOLEAN,
        d \in {<<FALSE, << >> >>, <<TRUE, LocalDisplay>>, <<TRUE, RemoteDisplay>>},
        xs \in {{}, {<<"0">>}}, u \in BOOLEAN }

\* The command line of the guest: identity, arguments and control port.
ArgLists == {<< >>, <<"a">>, <<"b", "a">>, <<"a", "a", "b">>}

ArgvCases ==
    { [options |-> OnlyFirst([DefaultOptions EXCEPT !.uid = id[1], !.euid = id[2],
                                                    !.gid = id[3],
                                                    !.command_args = a,
                                                    !.server_port = id[4],
                                                    !.mem = SomeMem(512)]),
       host    |-> [DefaultHost EXCEPT !.exec_dirs = KrunExecDirs,
                                       !.prepared = PreparedEnvs,
                                       !.temp_paths = TempPaths],
       started |-> {1}]
      : id \in {<<1000, 1001, 100, 3334>>, <<7, 1000, 1000, 80>>}, a \in ArgLists }

InputCases ==
    IdentityCases \cup CpuCases \cup RamCases \cup DiskCases \cup AttachCases
        \cup ArgvCases

VARIABLES
    options,     \* options[p]: command line options and identity of process p
    host,        \* the state of the host the processes run on
    lock,        \* the process holding the lock file of the port, or NoOwner
    pc,          \* pc[p]: the position of process p in `main`
    result,      \* result[p]: what launch_or_lock returned to p
    lock_file,   \* lock_file[p]: p's binding `_lock_file` holds the lock handle
    calls,       \* calls[p]: the hypervisor calls p has made, in order
    exit_code,   \* exit_code[p]: the exit status of p, NoExit while it runs
    cpu_list,    \* cpu_list[p]: the selected CPU list
    num_vcpus,   \* num_vcpus[p]
    ram_mib,     \* ram_mib[p]
    affinity,    \* affinity[p]: the CPU affinity of the process
    nofile,      \* nofile[p]: the soft RLIMIT_NOFILE of the process
    disks,       \* disks[p]: the selected images, and how many were attached
    config_file, \* config_file[p]: the temporary guest configuration file
    krun_guest_args  \* krun_guest_args[p]: the argument vector for the guest

\* The guest bootstrap (crates/krun/src/guest/mount.rs, mount_filesystems),
\* which runs once inside the guest.
VARIABLES
    genv,        \* what the guest finds: the listing of /dev, existing paths
    gpc,         \* the position in mount_filesystems and mount_fex_rootfs
    ops,         \* the file system and mount operations performed, in order
    mounts,      \* the mount table of the guest
    images,      \* mount_fex_rootfs: the vector `images`
    scan,        \* mount_fex_rootfs: entries of /dev and config bases done
    files,       \* the content of the files the bootstrap touches
    fex_result,  \* what mount_fex_rootfs returned
    gstatus      \* how mount_filesystems ended

launcher_vars == << options, host, lock, pc, result, lock_file, calls, exit_code,
                    cpu_list, num_vcpus, ram_mib, affinity, nofile, disks,
                    config_file, krun_guest_args >>

guest_vars == << genv, gpc, ops, mounts, images, scan, files, fex_result, gstatus >>

vars == << options, host, lock, pc, result, lock_file, calls, exit_code,
           cpu_list, num_vcpus, ram_mib, affinity, nofile, disks, config_file,
           krun_guest_args, genv, gpc, ops, mounts, images, scan, files, fex_result, gstatus >>

\* Paths of the guest, as sequences of components.
EtcResolv == <<"etc", "resolv.conf">>
TmpResolv == <<"tmp", "resolv.conf">>

NoGuestEnv == [dev |-> << >>, fex_bases |-> {}, x11 |-> FALSE]
NoScan == [dev |-> 0, base |-> 0]

\* The file system of the root mount, and the parent of a mount that is not
\* attached anywhere.
HostFs == 0
Detached == -1
RootMount == [parent |-> 0, at |-> << >>, fs |-> HostFs, root |-> << >>]
OriginalResolv == [fs |-> HostFs, path |-> EtcResolv]

\* The guest bootstrap in its initial state, in the guest environment e:
\* at position l, nothing done yet.
GuestAt(e, l) ==
    /\ genv = e
    /\ gpc = l
    /\ ops = << >>
    /\ mounts = <<RootMount>>
    /\ images = << >>
    /\ scan = NoScan
    /\ files = [f \in {OriginalResolv} |-> "original"]
    /\ fex_result = "none"
    /\ gstatus = "running"

Unpinned == [pinned |-> FALSE, cpus |-> {}]
NoJson == [Config |-> [Cmd |-> << >>, Env |-> {}]]
NoConfigFile ==
    [created |-> FALSE, written |-> FALSE, path |-> "", json |-> NoJson,
     prepared |-> << >>]

Init ==
    \E c \in InputCases :
        /\ options = c.options
        /\ host = c.host
        /\ lock = NoOwner
        /\ pc = [p \in Procs |-> IF p \in c.started THEN "start" ELSE "idle"]
        /\ result = [p \in Procs |-> "none"]
        /\ lock_file = [p \in Procs |-> FALSE]
        /\ calls = [p \in Procs |-> << >>]
        /\ exit_code = [p \in Procs |-> NoExit]
        /\ cpu_list = [p \in Procs |-> << >>]
        /\ num_vcpus = [p \in Procs |-> 0]
        /\ ram_mib = [p \in Procs |-> 0]
        /\ affinity = [p \in Procs |-> Unpinned]
        /\ nofile = [p \in Procs |-> c.host.nofile_cur]
        /\ disks = [p \in Procs |-> [list |-> << >>, done |-> 0]]
        /\ config_file = [p \in Procs |-> NoConfigFile]
        /\ krun_guest_args = [p \in Procs |-> << >>]
        /\ GuestAt(NoGuestEnv, "off")

(***************************************************************************)
(* Helpers.                                                                *)
(***************************************************************************)
Min(a, b) == IF a <= b THEN a ELSE b

\* The process ends with status c; the operating system closes its files,
\* which releases the lock file if the process holds it.
Exit(p, c) ==
    /\ pc' = [pc EXCEPT ![p] = "exited"]
    /\ exit_code' = [exit_code EXCEPT ![p] = c]
    /\ lock_file' = [lock_file EXCEPT ![p] = FALSE]
    /\ lock' = IF lock = p THEN NoOwner ELSE lock

Goto(p, l) ==
    /\ pc' = [pc EXCEPT ![p] = l]
    /\ UNCHANGED << exit_code, lock_file, lock >>

\* Return codes of a hypervisor call: a negative errno, or success.
HvRet == {-22, 0}

\* A call f(a) into the hypervisor library that returned r.  `held` records
\* whether the caller held the lock file of the port when it made the call.
HvCall(p, f, a, r) ==
    calls' = [calls EXCEPT ![p] =
                Append(@, [fn |-> f, arg |-> a, rc |-> r, held |-> (lock = p)])]

\* Mutant: the return code of the call is not checked.
Unchecked(p, r, next) == Goto(p, next)

\* `if err < 0 { return Err(..).context(..) }` after a hypervisor call.
Checked(p, r, next) ==
    IF r < 0 THEN Exit(p, ExitErr) ELSE Goto(p, next)

(***************************************************************************)
(* main, lines 60-68: the root check.                                      *)
(***************************************************************************)
\* Mutant: only the real user id is checked.
IsRootRealOnly(o) == o.uid = 0

IsRoot(o) == o.uid = 0 \/ o.euid = 0

CheckRoot(p) ==
    /\ pc[p] = "start"
    /\ IF IsRoot(options[p])
       THEN Exit(p, ExitErr)
       ELSE Goto(p, "launch_or_lock")
    /\ UNCHANGED << options, host, result, calls, cpu_list, num_vcpus, ram_mib,
                    affinity, nofile, disks, config_file, krun_guest_args >>

(***************************************************************************)
(* krun::launch::launch_or_lock (section 4.2 of the design): try to take   *)
(* the exclusive lock of the port; when another process holds it, forward  *)
(* the request to that process.                                            *)
(***************************************************************************)
TryLock(p) ==
    /\ pc[p] = "launch_or_lock"
    /\ \E io_ok \in BOOLEAN :
         IF ~io_ok
         THEN \* the lock file cannot be created or opened: fatal
              /\ result' = [result EXCEPT ![p] = "Err"]
              /\ pc' = [pc EXCEPT ![p] = "match"]
              /\ lock' = lock
         ELSE IF lock = NoOwner
         THEN /\ result' = [result EXCEPT ![p] = "LockAcquired"]
              /\ pc' = [pc EXCEPT ![p] = "match"]
              /\ lock' = p
         ELSE /\ result' = result
              /\ pc' = [pc EXCEPT ![p] = "forward"]
              /\ lock' = lock
    /\ UNCHANGED << options, host, lock_file, calls, exit_code, cpu_list,
                    num_vcpus, ram_mib, affinity, nofile, disks, config_file, krun_guest_args >>

Forward(p) ==
    /\ pc[p] = "forward"
    /\ \E accepted \in BOOLEAN :
         result' = [result EXCEPT ![p] =
                      IF accepted /\ lock # NoOwner THEN "LaunchRequested" ELSE "Err"]
    /\ pc' = [pc EXCEPT ![p] = "match"]
    /\ UNCHANGED << options, host, lock, lock_file, calls, exit_code, cpu_list,
                    num_vcpus, ram_mib, affinity, nofile, disks, config_file, krun_guest_args >>

(***************************************************************************)
(* main, lines 70-87: the match on the result of launch_or_lock.           *)
(***************************************************************************)
\* Mutant: `let (_, ..)`: the lock handle is dropped at once, which releases
\* the lock file.
DropLockFile(p) ==
    /\ lock_file' = [lock_file EXCEPT ![p] = FALSE]
    /\ lock' = NoOwner

\* `let (_lock_file, ..)`: the binding keeps the lock handle until main ends.
BindLockFile(p) ==
    /\ lock_file' = [lock_file EXCEPT ![p] = TRUE]
    /\ lock' = lock

\* Mutant: the LaunchRequested arm does not return and falls into the
\* configuration of a virtual machine.
MatchLaunchResultFallsThrough(p) ==
    /\ pc[p] = "match"
    /\ IF result[p] = "Err"
       THEN Exit(p, ExitErr)
       ELSE /\ lock_file' = [lock_file EXCEPT ![p] = (result[p] = "LockAcquired")]
            /\ lock' = lock
            /\ pc' = [pc EXCEPT ![p] = "set_log_level"]
            /\ exit_code' = exit_code
    /\ UNCHANGED << options, host, result, calls, cpu_list, num_vcpus, ram_mib,
                    affinity, nofile, disks, config_file, krun_guest_args >>

MatchLaunchResult(p) ==
    /\ pc[p] = "match"
    /\ IF result[p] = "Err"
       THEN Exit(p, ExitErr)
       ELSE IF result[p] = "LaunchRequested"
       THEN Exit(p, ExitOk)
       ELSE /\ BindLockFile(p)
            /\ pc' = [pc EXCEPT ![p] = "set_log_level"]
            /\ exit_code' = exit_code
    /\ UNCHANGED << options, host, result, calls, cpu_list, num_vcpus, ram_mib,
                    affinity, nofile, disks, config_file, krun_guest_args >>

(***************************************************************************)
(* main, lines 89-110: log level and configuration context.                *)
(***************************************************************************)
SetLogLevel(p) ==
    /\ pc[p] = "set_log_level"
    /\ \E r \in HvRet :
         /\ HvCall(p, "krun_set_log_level", <<0>>, r)
         /\ Checked(p, r, "create_ctx")
    /\ UNCHANGED << options, host, result, cpu_list, num_vcpus, ram_mib,
                    affinity, nofile, disks, config_file, krun_guest_args >>

CreateCtx(p) ==
    /\ pc[p] = "create_ctx"
    /\ \E ctx_id \in HvRet :
         /\ HvCall(p, "krun_create_ctx", << >>, ctx_id)
         /\ Checked(p, ctx_id, "size_vm")
    /\ UNCHANGED << options, host, result, cpu_list, num_vcpus, ram_mib,
                    affinity, nofile, disks, config_file, krun_guest_args >>

(***************************************************************************)
(* main, lines 112-149: the Resource Sizer.                                *)
(***************************************************************************)
\* Lines 113-121: the explicit CPU list, else the performance cores, else
\* the fallback cores; an error only when both queries fail.
SelectCpuList(explicit, perf, fallback) ==
    IF explicit # << >> THEN QueryOk(explicit)
    ELSE IF perf.ok THEN perf
    ELSE fallback

\* cpu_list.iter().fold(0, |acc, cpus| acc + cpus.len())
RECURSIVE CountCores(_)
CountCores(l) ==
    IF l = << >> THEN 0 ELSE CountCores(SubSeq(l, 1, Len(l) - 1)) + Len(l[Len(l)])

\* Line 122: the fold, then `as u8`.
NumVcpus(l) == CountCores(l) % U8Modulus

\* (ram_total as f64 * 0.8) as u32: the product truncated towards zero.  The
\* f64 nearest to 0.8 is a little above 0.8, so the rounded product is never
\* below an integral 0.8 * T, and the truncation is floor(8 * T / 10).
EightyPercent(total) == (total * 8) \div 10

\* Mutant: the ceiling is not applied.
RamMibUnclamped(mem, total) ==
    IF mem.some THEN mem.v ELSE EightyPercent(total)

\* Lines 123-129.
RamMib(mem, total) ==
    IF mem.some THEN mem.v ELSE Min(EightyPercent(total), RamCeilingMiB)

SizeVm(p) ==
    /\ pc[p] = "size_vm"
    /\ \E perf \in PerfResults, fallback \in FallbackResults, sysinfo_ok \in BOOLEAN :
         LET sel == SelectCpuList(options[p].cpu_list, perf, fallback)
         IN  IF ~sel.ok \/ (~options[p].mem.some /\ ~sysinfo_ok)
             THEN /\ Exit(p, ExitErr)
                  /\ UNCHANGED << cpu_list, num_vcpus, ram_mib >>
             ELSE /\ cpu_list' = [cpu_list EXCEPT ![p] = sel.list]
                  /\ num_vcpus' = [num_vcpus EXCEPT ![p] = NumVcpus(sel.list)]
                  /\ ram_mib' = [ram_mib EXCEPT ![p] =
                                   RamMib(options[p].mem, host.ram_total)]
                  /\ Goto(p, "setaffinity")
    /\ UNCHANGED << options, host, result, calls, affinity, nofile, disks,
                    config_file, krun_guest_args >>

\* Lines 131-136: the set of all cores of all groups.
CpuSetOf(l) == UNION { {l[i][j] : j \in 1..Len(l[i])} : i \in 1..Len(l) }

SetAffinityNotApplied(p) ==
    /\ pc[p] = "setaffinity"
    /\ \E ok \in BOOLEAN :
         IF ok
         THEN /\ affinity' = affinity
              /\ Goto(p, "set_vm_config")
         ELSE /\ affinity' = affinity
              /\ Exit(p, ExitErr)
    /\ UNCHANGED << options, host, result, calls, cpu_list, num_vcpus, ram_mib,
                    nofile, disks, config_file, krun_guest_args >>

\* Lines 137-138.
SetAffinity(p) ==
    /\ pc[p] = "setaffinity"
    /\ \E ok \in BOOLEAN :
         IF ok
         THEN /\ affinity' = [affinity EXCEPT ![p] =
                                [pinned |-> TRUE, cpus |-> CpuSetOf(cpu_list[p])]]
              /\ Goto(p, "set_vm_config")
         ELSE /\ affinity' = affinity
              /\ Exit(p, ExitErr)
    /\ UNCHANGED << options, host, result, calls, cpu_list, num_vcpus, ram_mib,
                    nofile, disks, config_file, krun_guest_args >>

\* Lines 139-148.
SetVmConfig(p) ==
    /\ pc[p] = "set_vm_config"
    /\ \E r \in HvRet :
         /\ HvCall(p, "krun_set_vm_config", <<num_vcpus[p], ram_mib[p]>>, r)
         /\ Checked(p, r, "rlimit")
    /\ UNCHANGED << options, host, result, cpu_list, num_vcpus, ram_mib,
                    affinity, nofile, disks, config_file, krun_guest_args >>

\* Lines 151-156: RLIMIT_NOFILE raised to its maximum.
RaiseRlimit(p) ==
    /\ pc[p] = "rlimit"
    /\ \E ok \in BOOLEAN :
         IF ok
         THEN /\ nofile' = [nofile EXCEPT ![p] = host.nofile_max]
              /\ Goto(p, "select_disks")
         ELSE /\ nofile' = nofile
              /\ Exit(p, ExitErr)
    /\ UNCHANGED << options, host, result, calls, cpu_list, num_vcpus, ram_mib,
                    affinity, disks, config_file, krun_guest_args >>

(***************************************************************************)
(* main, lines 158-182: the Device/Disk Selector.                          *)
(***************************************************************************)
\* .filter(|x| Path::new(x).exists()): the sub-sequence of existing paths.
RECURSIVE FilterExisting(_, _)
FilterExisting(l, existing) ==
    IF l = << >> THEN << >>
    ELSE IF Head(l) \in existing
         THEN <<Head(l)>> \o FilterExisting(Tail(l), existing)
         ELSE FilterExisting(Tail(l), existing)

\* Mutant: the default images are not filtered by existence.
SelectedDisksUnfiltered(fex_images, existing) ==
    IF fex_images # << >> THEN fex_images ELSE DefaultDisks

\* Lines 165-178.
SelectedDisks(fex_images, existing) ==
    IF fex_images # << >> THEN fex_images
    ELSE FilterExisting(DefaultDisks, existing)

SelectDisks(p) ==
    /\ pc[p] = "select_disks"
    /\ LET l == SelectedDisks(options[p].fex_images, host.exists)
       IN  /\ disks' = [disks EXCEPT ![p] = [list |-> l, done |-> 0]]
           /\ Goto(p, IF l = << >> THEN "set_root" ELSE "add_disks")
    /\ UNCHANGED << options, host, result, calls, cpu_list, num_vcpus, ram_mib,
                    affinity, nofile, config_file, krun_guest_args >>

\* add_ro_disk, lines 43-58: krun_add_disk(ctx_id, label, path, true).
AddRoDiskArgs(label, path) == <<label, path, TRUE>>

\* Mutant: the loop ends after the first image.
AddDiskFirstOnly(p) ==
    /\ pc[p] = "add_disks"
    /\ LET path == disks[p].list[disks[p].done + 1]
       IN  \E err \in HvRet :
             /\ HvCall(p, "krun_add_disk", AddRoDiskArgs(path, path), err)
             /\ disks' = [disks EXCEPT ![p].done = IF err < 0 THEN @ ELSE @ + 1]
             /\ Checked(p, err, "set_root")
    /\ UNCHANGED << options, host, result, cpu_list, num_vcpus, ram_mib,
                    affinity, nofile, config_file, krun_guest_args >>

\* Lines 180-182: one iteration of the loop over the selected images.
AddDisk(p) ==
    /\ pc[p] = "add_disks"
    /\ LET path == disks[p].list[disks[p].done + 1]
       IN  \E err \in HvRet :
             /\ HvCall(p, "krun_add_disk", AddRoDiskArgs(path, path), err)
             /\ disks' = [disks EXCEPT ![p].done = IF err < 0 THEN @ ELSE @ + 1]
             /\ Checked(p, err, IF disks[p].done + 1 = Len(disks[p].list)
                                THEN "set_root" ELSE "add_disks")
    /\ UNCHANGED << options, host, result, cpu_list, num_vcpus, ram_mib,
                    affinity, nofile, config_file, krun_guest_args >>

(***************************************************************************)
(* main, lines 184-223: root path, GPU, network backend.                   *)
(***************************************************************************)
SetRoot(p) ==
    /\ pc[p] = "set_root"
    /\ \E r \in HvRet :
         /\ HvCall(p, "krun_set_root", <<"/">>, r)
         /\ Checked(p, r, "set_gpu_options")
    /\ UNCHANGED << options, host, result, cpu_list, num_vcpus, ram_mib,
                    affinity, nofile, disks, config_file, krun_guest_args >>

VirglFlags == {"VIRGLRENDERER_USE_EGL", "VIRGLRENDERER_DRM",
               "VIRGLRENDERER_THREAD_SYNC", "VIRGLRENDERER_USE_ASYNC_FENCE_CB"}

SetGpuOptions(p) ==
    /\ pc[p] = "set_gpu_options"
    /\ \E r \in HvRet :
         /\ HvCall(p, "krun_set_gpu_options", <<VirglFlags>>, r)
         /\ Checked(p, r, "passt")
    /\ UNCHANGED << options, host, result, cpu_list, num_vcpus, ram_mib,
                    affinity, nofile, disks, config_file, krun_guest_args >>

\* Lines 206-223: connect to the given passt socket, else start passt on
\* the control port; either may fail.  The descriptor is handed over.
SetPasstFd(p) ==
    /\ pc[p] = "passt"
    /\ \E passt_ok \in BOOLEAN, r \in HvRet :
         IF ~passt_ok
         THEN /\ calls' = calls
              /\ Exit(p, ExitErr)
         ELSE /\ HvCall(p, "krun_set_passt_fd",
                        <<IF options[p].passt_socket THEN "connect_to_passt"
                                                     ELSE "start_passt">>, r)
              /\ Checked(p, r, "vsock_pulse")
    /\ UNCHANGED << options, host, result, cpu_list, num_vcpus, ram_mib,
                    affinity, nofile, disks, config_file, krun_guest_args >>

(***************************************************************************)
(* main, lines 225-277: the optional vsock attachments.                    *)
(***************************************************************************)
AttachRuntimeSocketRequired(p, port, path, next) ==
    IF host.xdg_set /\ path \in host.exists
    THEN \E r \in HvRet :
           /\ HvCall(p, "krun_add_vsock_port", <<port, path>>, r)
           /\ Checked(p, r, next)
    ELSE /\ calls' = calls
         /\ Exit(p, ExitErr)

\* A socket under $XDG_RUNTIME_DIR is attached when the variable is set and
\* the socket exists; otherwise the step is skipped.
AttachRuntimeSocket(p, port, path, next) ==
    IF host.xdg_set /\ path \in host.exists
    THEN \E r \in HvRet :
           /\ HvCall(p, "krun_add_vsock_port", <<port, path>>, r)
           /\ Checked(p, r, next)
    ELSE /\ calls' = calls
         /\ Goto(p, next)

\* Lines 225-240.
AddVsockPulse(p) ==
    /\ pc[p] = "vsock_pulse"
    /\ AttachRuntimeSocket(p, PulsePort, PulsePath, "vsock_hidpipe")
    /\ UNCHANGED << options, host, result, cpu_list, num_vcpus, ram_mib,
                    affinity, nofile, disks, config_file, krun_guest_args >>

\* Lines 241-256.
AddVsockHidpipe(p) ==
    /\ pc[p] = "vsock_hidpipe"
    /\ AttachRuntimeSocket(p, HidpipePort, HidpipePath, "vsock_x11")
    /\ UNCHANGED << options, host, result, cpu_list, num_vcpus, ram_mib,
                    affinity, nofile, disks, config_file, krun_guest_args >>

\* x11_display.strip_prefix(":"): the rest of the value after a leading ':'.
HasColonPrefix(d) == d # << >> /\ Head(d) = ":"

\* Lines 258-277.
AddVsockX11(p) ==
    /\ pc[p] = "vsock_x11"
    /\ IF /\ host.display_set
          /\ HasColonPrefix(host.display)
          /\ Tail(host.display) \in host.x11_sockets
       THEN \E r \in HvRet :
              /\ HvCall(p, "krun_add_vsock_port",
                        <<X11Port, <<"/tmp/.X11-unix/X">> \o Tail(host.display)>>, r)
              /\ Checked(p, r, "user")
       ELSE /\ calls' = calls
            /\ Goto(p, "user")
    /\ UNCHANGED << options, host, result, cpu_list, num_vcpus, ram_mib,
                    affinity, nofile, disks, config_file, krun_guest_args >>

(***************************************************************************)
(* main, lines 279-326: user, working directory, guest argv.               *)
(***************************************************************************)
\* Lines 279-289: $USER and its entry of the user database.
LookupUser(p) ==
    /\ pc[p] = "user"
    /\ \E found \in BOOLEAN :
         IF host.user_set /\ found
         THEN Goto(p, "set_workdir")
         ELSE Exit(p, ExitErr)
    /\ UNCHANGED << options, host, result, calls, cpu_list, num_vcpus, ram_mib,
                    affinity, nofile, disks, config_file, krun_guest_args >>

\* Lines 291-308.
SetWorkdir(p) ==
    /\ pc[p] = "set_workdir"
    /\ \E r \in HvRet :
         /\ HvCall(p, "krun_set_workdir", <<"user.dir">>, r)
         /\ Checked(p, r, "find_exec")
    /\ UNCHANGED << options, host, result, cpu_list, num_vcpus, ram_mib,
                    affinity, nofile, disks, config_file, krun_guest_args >>

Digits == <<"0", "1", "2", "3", "4", "5", "6", "7", "8", "9">>

\* format!("{n}") and n.to_string() of an unsigned integer: its decimal
\* digits, the most significant first.
RECURSIVE Decimal(_)
Decimal(n) ==
    IF n < 10 THEN <<Digits[n + 1]>>
    ELSE Decimal(n \div 10) \o <<Digits[(n % 10) + 1]>>

KrunGuestArgsEffectiveUid(guest_path, username, o, server_path) ==
    << guest_path, username, Decimal(o.euid), Decimal(o.gid), server_path,
       o.command >> \o o.command_args

\* Lines 313-326: getuid() and getgid() are the real ids.
KrunGuestArgs(guest_path, username, o, server_path) ==
    << guest_path, username, Decimal(o.uid), Decimal(o.gid), server_path,
       o.command >> \o o.command_args

\* The results of find_krun_exec(name): the path of the executable in one
\* of the directories searched.
KrunExecPaths(name) == {<<d, name>> : d \in host.exec_dirs}

\* Lines 310-326: the two executables are looked up and the argument
\* vector is built; a lookup may fail, and so may the conversion of the
\* command to UTF-8.
FindKrunExec(p) ==
    /\ pc[p] = "find_exec"
    /\ \E found, utf8_ok \in BOOLEAN,
          guest_path \in KrunExecPaths("krun-guest"),
          server_path \in KrunExecPaths("krun-server") :
         IF found /\ utf8_ok
         THEN /\ krun_guest_args' =
                   [krun_guest_args EXCEPT ![p] =
                      KrunGuestArgs(guest_path, host.user, options[p], server_path)]
              /\ Goto(p, "write_config")
         ELSE /\ krun_guest_args' = krun_guest_args
              /\ Exit(p, ExitErr)
    /\ UNCHANGED << options, host, result, calls, cpu_list, num_vcpus, ram_mib,
                    affinity, nofile, disks, config_file >>

EnvInsertKeepsExisting(env, k, v) ==
    [x \in DOMAIN env \cup {k} |-> IF x \in DOMAIN env THEN env[x] ELSE v]

\* HashMap::insert, lines 329-332: the value of an existing key is replaced.
EnvInsert(env, k, v) ==
    [x \in DOMAIN env \cup {k} |-> IF x = k THEN v ELSE env[x]]

\* Lines 341-343: format!("{}={}", key, value) for every entry of the map.
EnvStrings(env) == {<<k, "=", env[k]>> : k \in DOMAIN env}

\* Lines 328-347: the document {"Config":{"Cmd":[..],"Env":[..]}}.
KrunBaseConfig(args, prepared, server_port) ==
    [Config |->
       [Cmd |-> args,
        Env |-> EnvStrings(EnvInsert(prepared, "KRUN_SERVER_PORT",
                                     Decimal(server_port)))]]

\* Lines 328-357: the guest configuration written to a temporary file;
\* preparing the variables, creating the file and writing it may fail.
WriteConfig(p) ==
    /\ pc[p] = "write_config"
    /\ \E stage \in {"prepare_failed", "create_failed", "write_failed", "ok"},
          prepared \in host.prepared, path \in host.temp_paths :
         CASE stage = "ok" ->
                /\ config_file' = [config_file EXCEPT ![p] =
                     [created |-> TRUE, written |-> TRUE, path |-> path,
                      json |-> KrunBaseConfig(krun_guest_args[p], prepared,
                                              options[p].server_port),
                      prepared |-> prepared]]
                /\ Goto(p, "set_env")
           [] stage = "write_failed" ->
                /\ config_file' = [config_file EXCEPT ![p] =
                     [NoConfigFile EXCEPT !.created = TRUE, !.path = path,
                                          !.prepared = prepared]]
                /\ Exit(p, ExitErr)
           [] OTHER ->
                /\ config_file' = config_file
                /\ Exit(p, ExitErr)
    /\ UNCHANGED << options, host, result, calls, cpu_list, num_vcpus, ram_mib,
                    affinity, nofile, disks, krun_guest_args >>

\* The temporary file is removed when `config_file` is dropped, at the end
\* of main.
ConfigFileExists(p) == config_file[p].created /\ pc[p] # "exited"

(***************************************************************************)
(* main, lines 359-389: environment, start and enter.                      *)
(***************************************************************************)
\* Lines 359-361: vec![krun_config_env.as_ptr(), std::ptr::null()].
KrunSetEnvArg(cf) == << <<"KRUN_CONFIG=", cf.path>>, "NULL" >>

SetEnv(p) ==
    /\ pc[p] = "set_env"
    /\ \E r \in HvRet :
         /\ HvCall(p, "krun_set_env", KrunSetEnvArg(config_file[p]), r)
         /\ Checked(p, r, "start_enter")
    /\ UNCHANGED << options, host, result, cpu_list, num_vcpus, ram_mib,
                    affinity, nofile, disks, config_file, krun_guest_args >>

\* Mutant: a non-negative return of krun_start_enter ends main with Ok(()).
StartEnterReturnedOk(p, err) ==
    IF err < 0 THEN Exit(p, ExitErr) ELSE Exit(p, ExitOk)

\* Lines 381-388: what main does when krun_start_enter returned err.
StartEnterReturned(p, err) ==
    IF err < 0 THEN Exit(p, ExitErr) ELSE Exit(p, ExitPanic)

\* Lines 376-388: krun_start_enter either does not return (the process is
\* the virtual machine from now on) or returns some code.
StartEnter(p) ==
    /\ pc[p] = "start_enter"
    /\ \E returns \in BOOLEAN, err \in HvRet :
         IF returns
         THEN /\ HvCall(p, "krun_start_enter", << >>, err)
              /\ StartEnterReturned(p, err)
         ELSE /\ HvCall(p, "krun_start_enter", << >>, 0)
              /\ Goto(p, "in_vm")
    /\ UNCHANGED << options, host, result, cpu_list, num_vcpus, ram_mib,
                    affinity, nofile, disks, config_file, krun_guest_args >>

(***************************************************************************)
(* The specification.                                                      *)
(***************************************************************************)
Main(p) ==
    \/ CheckRoot(p)
    \/ TryLock(p)
    \/ Forward(p)
    \/ MatchLaunchResult(p)
    \/ SetLogLevel(p)
    \/ CreateCtx(p)
    \/ SizeVm(p)
    \/ SetAffinity(p)
    \/ SetVmConfig(p)
    \/ RaiseRlimit(p)
    \/ SelectDisks(p)
    \/ AddDisk(p)
    \/ SetRoot(p)
    \/ SetGpuOptions(p)
    \/ SetPasstFd(p)
    \/ AddVsockPulse(p)
    \/ AddVsockHidpipe(p)
    \/ AddVsockX11(p)
    \/ LookupUser(p)
    \/ SetWorkdir(p)
    \/ FindKrunExec(p)
    \/ WriteConfig(p)
    \/ SetEnv(p)
    \/ StartEnter(p)

Next == \E p \in Procs : Main(p) /\ UNCHANGED guest_vars

Spec == Init /\ [][Next]_vars

(***************************************************************************)
(* The guest bootstrap: crates/krun/src/guest/mount.rs.                    *)
(***************************************************************************)
\* Bound: the number of entries of the enumerated /dev listings.
MaxDevEntries == 3

\* Names of /dev entries, with their spelling.
Chars ==
    [n \in {"vd0", "vd1", "vd2", "sda", "v"} |->
        CASE n = "vd0" -> <<"v", "d", "0">>
          [] n = "vd1" -> <<"v", "d", "1">>
          [] n = "vd2" -> <<"v", "d", "2">>
          [] n = "sda" -> <<"s", "d", "a">>
          [] n = "v"   -> <<"v">>]
DevNames == DOMAIN Chars

\* name.starts_with(prefix), on the spelling of the name.
StartsWith(name, prefix) ==
    /\ Len(Chars[name]) >= Len(prefix)
    /\ SubSeq(Chars[name], 1, Len(prefix)) = prefix

\* The listings read_dir("/dev") may return: entries in any order.
DevListings ==
    {l \in UNION {[1..n -> DevNames] : n \in 0..MaxDevEntries} :
        \A i, j \in DOMAIN l : i # j => l[i] # l[j]}

FexDir == <<"run", "fex-emu">>
DirRootfs == FexDir \o <<"rootfs">>
ImageDir(name) == FexDir \o <<name>>
FexBases == << <<"usr", "share", "fex-emu">>, <<"usr", "local", "share", "fex-emu">> >>
FexConfigJson == <<"{\"Config\":{\"RootFS\":\"", DirRootfs, "\"}}\n">>

GuestEnvs ==
    {[dev |-> l, fex_bases |-> b, x11 |-> x] :
        l \in DevListings, b \in SUBSET {FexBases[1], FexBases[2]}, x \in BOOLEAN}

\* One operation of the bootstrap on the file system or the mount table.
Op(kind, source, target, fstype, flags, data) ==
    [op |-> kind, source |-> source, target |-> target, fstype |-> fstype,
     flags |-> flags, data |-> data]

\* mkdir_fex, lines 24-31 (the unwrap is in the callers' steps).
MkdirFex(dir) == Op("mkdir", << >>, dir, "", {"0555"}, << >>)

\* make_tmpfs, lines 13-22.
MakeTmpfs(dir) ==
    Op("mount", <<"tmpfs">>, dir, "tmpfs", {"NOEXEC", "NOSUID", "RELATIME"}, << >>)

\* Line 40: `flags` of the erofs and overlay mounts.
RdOnly == {"RDONLY"}

\* A panic (an unwrap of an error) ends the bootstrap process.
GuestPanic ==
    /\ gstatus' = "panic"
    /\ gpc' = "done"
    /\ fex_result' = fex_result

\* An error returned by mount_filesystems.
GuestErr ==
    /\ gstatus' = "err"
    /\ gpc' = "done"
    /\ fex_result' = fex_result

\* Lines 98-100: mount_fex_rootfs returned r; an error is printed and the
\* bootstrap carries on.
FexReturn(r) ==
    /\ fex_result' = r
    /\ gpc' = "resolv_create"
    /\ gstatus' = gstatus

GuestGoto(l) ==
    /\ gpc' = l
    /\ gstatus' = gstatus
    /\ fex_result' = fex_result

(* The mount table.  A mount hangs below its parent mount at a directory  *)
(* entry of the parent's file system and shows the file system fs from    *)
(* the directory entry root on.  Mounts are private: nothing propagates.  *)
RECURSIVE Enter(_, _, _)
Enter(tbl, m, d) ==
    IF \E k \in DOMAIN tbl : tbl[k].parent = m /\ tbl[k].at = d
    THEN LET k == CHOOSE k \in DOMAIN tbl : tbl[k].parent = m /\ tbl[k].at = d
         IN  Enter(tbl, k, tbl[k].root)
    ELSE [mnt |-> m, dentry |-> d]

RECURSIVE Walk(_, _, _)
Walk(tbl, loc, rest) ==
    IF rest = << >> THEN loc
    ELSE Walk(tbl, Enter(tbl, loc.mnt, Append(loc.dentry, Head(rest))), Tail(rest))

\* Path resolution from the root: the mount and directory entry of path.
Locate(tbl, path) == Walk(tbl, Enter(tbl, 1, << >>), path)

\* What is seen at path: a directory entry of a file system.
View(tbl, path) ==
    LET l == Locate(tbl, path) IN [fs |-> tbl[l.mnt].fs, path |-> l.dentry]

Attach(tbl, target, fs, root) ==
    LET l == Locate(tbl, target)
    IN  Append(tbl, [parent |-> l.mnt, at |-> l.dentry, fs |-> fs, root |-> root])

\* The effect of one operation on the mount table: mount2 attaches a new
\* file system, mount_bind the file system seen at the source (without the
\* mounts below it), open_tree(OPEN_TREE_CLONE) makes a detached copy of
\* the source and move_mount attaches that copy.
ApplyOp(tbl, o) ==
    CASE o.op = "mount" -> Attach(tbl, o.target, Len(tbl) + 1, << >>)
      [] o.op = "bind" ->
            LET v == View(tbl, o.source) IN Attach(tbl, o.target, v.fs, v.path)
      [] o.op = "open_tree" ->
            LET v == View(tbl, o.source)
            IN  Append(tbl, [parent |-> Detached, at |-> << >>, fs |-> v.fs,
                             root |-> v.path])
      [] o.op = "move_mount" ->
            LET k == CHOOSE k \in DOMAIN tbl :
                        /\ tbl[k].parent = Detached
                        /\ \A j \in DOMAIN tbl : tbl[j].parent = Detached => j <= k
                l == Locate(tbl, o.target)
            IN  [tbl EXCEPT ![k] = [@ EXCEPT !.parent = l.mnt, !.at = l.dentry]]
      [] OTHER -> tbl

RECURSIVE ApplyOps(_, _)
ApplyOps(tbl, new) ==
    IF new = << >> THEN tbl ELSE ApplyOps(ApplyOp(tbl, Head(new)), Tail(new))

\* The bootstrap performs the operations new, in order.
Do(new) ==
    /\ ops' = ops \o new
    /\ mounts' = ApplyOps(mounts, new)

\* Lines 34-38: the base directory.
FexMkdirBase ==
    /\ gpc = "fex_mkdir_base"
    /\ \E ok \in BOOLEAN :
         IF ok
         THEN Do(<< MkdirFex(FexDir) >>) /\ GuestGoto("fex_read_dir")
         ELSE Do(<< >>) /\ GuestPanic
    /\ UNCHANGED << genv, images, scan, files >>

\* Line 44: read_dir("/dev").unwrap().
FexReadDir ==
    /\ gpc = "fex_read_dir"
    /\ \E ok \in BOOLEAN :
         IF ok
         THEN GuestGoto(IF genv.dev = << >> THEN "fex_compose" ELSE "fex_dev")
         ELSE GuestPanic
    /\ UNCHANGED << genv, ops, mounts, images, scan, files >>

\* The elements of l joined by sep.
RECURSIVE Join(_, _)
Join(l, sep) ==
    IF l = << >> THEN << >>
    ELSE IF Len(l) = 1 THEN <<l[1]>>
    ELSE <<Head(l), sep>> \o Join(Tail(l), sep)

RevKeepsOrder(l) == l

\* .into_iter().rev()
Rev(l) == [i \in 1..Len(l) |-> l[Len(l) + 1 - i]]

OverlayOptsInDiscoveryOrder(imgs) == <<"lowerdir=">> \o Join(imgs, ":")

\* Lines 64-67: the data of the overlay mount.
OverlayOpts(imgs) == <<"lowerdir=">> \o Join(Rev(imgs), ":")

\* Lines 44-60: one entry of /dev.
FexDev ==
    /\ gpc = "fex_dev"
    /\ LET name == genv.dev[scan.dev + 1]
           dir == ImageDir(name)
           next == IF scan.dev + 1 = Len(genv.dev) THEN "fex_compose" ELSE "fex_dev"
       IN  \E entry_ok, mkdir_ok, mount_ok \in BOOLEAN :
             IF ~entry_ok
             THEN /\ GuestPanic
                  /\ Do(<< >>)
                  /\ UNCHANGED << images, scan >>
             ELSE IF ~StartsWith(name, <<"v", "d">>)
             THEN /\ GuestGoto(next)
                  /\ Do(<< >>)
                  /\ scan' = [scan EXCEPT !.dev = @ + 1]
                  /\ images' = images
             ELSE IF ~mkdir_ok
             THEN /\ GuestPanic
                  /\ Do(<< >>)
                  /\ UNCHANGED << images, scan >>
             ELSE IF ~mount_ok
             THEN /\ GuestPanic
                  /\ Do(<< MkdirFex(dir) >>)
                  /\ UNCHANGED << images, scan >>
             ELSE /\ GuestGoto(next)
                  /\ Do(<< MkdirFex(dir),
                           Op("mount", <<"dev", name>>, dir, "erofs", RdOnly, << >>) >>)
                  /\ images' = Append(images, dir)
                  /\ scan' = [scan EXCEPT !.dev = @ + 1]
    /\ UNCHANGED << genv, files >>

\* Lines 62-77: the overlay, the symbolic link, or nothing.
FexCompose ==
    /\ gpc = "fex_compose"
    /\ IF Len(images) >= 2
       THEN \E mkdir_ok, mount_ok \in BOOLEAN :
              IF ~mkdir_ok
              THEN GuestPanic /\ Do(<< >>)
              ELSE IF ~mount_ok
              THEN FexReturn("err") /\ Do(<< MkdirFex(DirRootfs) >>)
              ELSE /\ GuestGoto("fex_config")
                   /\ Do(<< MkdirFex(DirRootfs),
                            Op("mount", <<"overlay">>, DirRootfs, "overlay", RdOnly,
                               OverlayOpts(images)) >>)
       ELSE IF Len(images) = 1
       THEN \E ok \in BOOLEAN :
              IF ok
              THEN /\ GuestGoto("fex_config")
                   /\ Do(<< Op("symlink", images[1], DirRootfs, "", {}, << >>) >>)
              ELSE FexReturn("err") /\ Do(<< >>)
       ELSE GuestGoto("fex_config") /\ Do(<< >>)
    /\ UNCHANGED << genv, images, scan, files >>

\* The files after content is stored in the file seen at path.
WithFile(tbl, path, content) ==
    LET f == View(tbl, path)
    IN  [x \in DOMAIN files \cup {f} |-> IF x = f THEN content ELSE files[x]]

\* Lines 82-92: one of the two configuration directories; after the last
\* one mount_fex_rootfs returns Ok(()).
FexConfig ==
    /\ gpc = "fex_config"
    /\ LET base == FexBases[scan.base + 1]
           path == base \o <<"Config.json">>
           last == scan.base + 1 = Len(FexBases)
           create == Op("create", << >>, path, "", {"WRITE", "CREATE", "TRUNCATE"}, << >>)
       IN  IF base \notin genv.fex_bases
           THEN /\ (IF last THEN FexReturn("ok") ELSE GuestGoto("fex_config"))
                /\ Do(<< >>)
                /\ scan' = [scan EXCEPT !.base = @ + 1]
                /\ files' = files
           ELSE \E tmpfs_ok, create_ok, write_ok \in BOOLEAN :
                  IF ~tmpfs_ok
                  THEN /\ FexReturn("err")
                       /\ Do(<< >>)
                       /\ UNCHANGED << files, scan >>
                  ELSE IF ~create_ok
                  THEN /\ FexReturn("err")
                       /\ Do(<< MakeTmpfs(base) >>)
                       /\ UNCHANGED << files, scan >>
                  ELSE IF ~write_ok
                  THEN /\ FexReturn("err")
                       /\ Do(<< MakeTmpfs(base), create >>)
                       /\ files' = WithFile(mounts', path, "partial")
                       /\ scan' = scan
                  ELSE /\ (IF last THEN FexReturn("ok") ELSE GuestGoto("fex_config"))
                       /\ Do(<< MakeTmpfs(base), create,
                                Op("write", << >>, path, "", {}, FexConfigJson) >>)
                       /\ files' = WithFile(mounts', path, "written")
                       /\ scan' = [scan EXCEPT !.base = @ + 1]
    /\ UNCHANGED << genv, images >>

\* A step of mount_filesystems that returns its error with `?`: the
\* operations new are performed, or the bootstrap ends with the error.
GuestTry(new, next) ==
    \E ok \in BOOLEAN :
      IF ok
      THEN Do(new) /\ GuestGoto(next)
      ELSE Do(<< >>) /\ GuestErr

\* Line 96.
TmpfsRun ==
    /\ gpc = "tmpfs_run"
    /\ GuestTry(<< MakeTmpfs(<<"var", "run">>) >>, "fex_mkdir_base")
    /\ UNCHANGED << genv, images, scan, files >>

ResolvCreateInPlace ==
    /\ gpc = "resolv_create"
    /\ GuestTry(<< Op("create", << >>, EtcResolv, "",
                      {"WRITE", "CREATE", "TRUNCATE"}, << >>) >>, "resolv_open_tree")
    /\ files' = IF gpc' = "resolv_open_tree"
                THEN WithFile(mounts, EtcResolv, "empty") ELSE files
    /\ UNCHANGED << genv, images, scan >>

\* Lines 102-107: the empty placeholder file.
ResolvCreate ==
    /\ gpc = "resolv_create"
    /\ GuestTry(<< Op("create", << >>, TmpResolv, "",
                      {"WRITE", "CREATE", "TRUNCATE"}, << >>) >>, "resolv_open_tree")
    /\ files' = IF gpc' = "resolv_open_tree"
                THEN WithFile(mounts, TmpResolv, "empty") ELSE files
    /\ UNCHANGED << genv, images, scan >>

\* Lines 110-115.
ResolvOpenTree ==
    /\ gpc = "resolv_open_tree"
    /\ GuestTry(<< Op("open_tree", TmpResolv, << >>, "",
                      {"OPEN_TREE_CLONE", "OPEN_TREE_CLOEXEC"}, << >>) >>,
                "resolv_move_mount")
    /\ UNCHANGED << genv, images, scan, files >>

\* Lines 117-124.
ResolvMoveMount ==
    /\ gpc = "resolv_move_mount"
    /\ GuestTry(<< Op("move_mount", << >>, EtcResolv, "",
                      {"MOVE_MOUNT_F_EMPTY_PATH"}, << >>) >>, "binfmt_misc")
    /\ UNCHANGED << genv, images, scan, files >>

MountBinfmtMiscAfterBind ==
    /\ gpc = "binfmt_misc"
    /\ GuestTry(<< Op("create_dir_all", << >>, <<"run", "krun-host">>, "", {}, << >>),
                   Op("bind", << >>, <<"run", "krun-host">>, "", {"BIND"}, << >>),
                   Op("mount", <<"binfmt_misc">>, <<"proc", "sys", "fs", "binfmt_misc">>,
                      "binfmt_misc", {"NOEXEC", "NOSUID", "RELATIME"}, << >>) >>,
                "x11")
    /\ UNCHANGED << genv, images, scan, files >>

\* Lines 127-134.
MountBinfmtMisc ==
    /\ gpc = "binfmt_misc"
    /\ GuestTry(<< Op("mount", <<"binfmt_misc">>, <<"proc", "sys", "fs", "binfmt_misc">>,
                      "binfmt_misc", {"NOEXEC", "NOSUID", "RELATIME"}, << >>) >>,
                "host_dir")
    /\ UNCHANGED << genv, images, scan, files >>

HostPath == <<"run", "krun-host">>
X11Dir == <<"tmp", ".X11-unix">>

\* Lines 137-138.
CreateHostDir ==
    /\ gpc = "host_dir"
    /\ GuestTry(<< Op("create_dir_all", << >>, HostPath, "", {}, << >>) >>, "host_bind")
    /\ UNCHANGED << genv, images, scan, files >>

\* Line 139: mount_bind("/", host_path).
BindHostRoot ==
    /\ gpc = "host_bind"
    /\ GuestTry(<< Op("bind", << >>, HostPath, "", {"BIND"}, << >>) >>, "x11")
    /\ UNCHANGED << genv, images, scan, files >>

\* mount_filesystems returns Ok(()).
GuestOk ==
    /\ gstatus' = "ok"
    /\ gpc' = "done"
    /\ fex_result' = fex_result

TmpfsX11UnderHostPath ==
    /\ gpc = "x11"
    /\ IF genv.x11
       THEN \E ok \in BOOLEAN :
              IF ok
              THEN Do(<< MakeTmpfs(HostPath \o X11Dir) >>) /\ GuestOk
              ELSE Do(<< >>) /\ GuestErr
       ELSE Do(<< >>) /\ GuestOk
    /\ UNCHANGED << genv, images, scan, files >>

\* Lines 141-147.
TmpfsX11 ==
    /\ gpc = "x11"
    /\ IF genv.x11
       THEN \E ok \in BOOLEAN :
              IF ok
              THEN Do(<< MakeTmpfs(X11Dir) >>) /\ GuestOk
              ELSE Do(<< >>) /\ GuestErr
       ELSE Do(<< >>) /\ GuestOk
    /\ UNCHANGED << genv, images, scan, files >>

\* mount_filesystems, lines 95-148, with mount_fex_rootfs, lines 33-93.
MountFilesystems ==
    \/ TmpfsRun
    \/ FexMkdirBase
    \/ FexReadDir
    \/ FexDev
    \/ FexCompose
    \/ FexConfig
    \/ ResolvCreate
    \/ ResolvOpenTree
    \/ ResolvMoveMount
    \/ MountBinfmtMisc
    \/ CreateHostDir
    \/ BindHostRoot
    \/ TmpfsX11

\* The guest bootstrap in every guest environment; no launcher runs.
GuestInit ==
    /\ options = [p \in Procs |-> DefaultOptions]
    /\ host = DefaultHost
    /\ lock = NoOwner
    /\ pc = [p \in Procs |-> "idle"]
    /\ result = [p \in Procs |-> "none"]
    /\ lock_file = [p \in Procs |-> FALSE]
    /\ calls = [p \in Procs |-> << >>]
    /\ exit_code = [p \in Procs |-> NoExit]
    /\ cpu_list = [p \in Procs |-> << >>]
    /\ num_vcpus = [p \in Procs |-> 0]
    /\ ram_mib = [p \in Procs |-> 0]
    /\ affinity = [p \in Procs |-> Unpinned]
    /\ nofile = [p \in Procs |-> host.nofile_cur]
    /\ disks = [p \in Procs |-> [list |-> << >>, done |-> 0]]
    /\ config_file = [p \in Procs |-> NoConfigFile]
    /\ krun_guest_args = [p \in Procs |-> << >>]
    /\ \E e \in GuestEnvs : GuestAt(e, "tmpfs_run")

GuestNext == MountFilesystems /\ UNCHANGED launcher_vars

GuestSpec == GuestInit /\ [][GuestNext]_vars

(***************************************************************************)
(* Properties of the launcher.                                             *)
(***************************************************************************)
CallIdx(p) == 1..Len(calls[p])
IdxOf(p, f) == {i \in CallIdx(p) : calls[p][i].fn = f}
\* Call f was made before position i and returned success.
SucceededBefore(p, f, i) ==
    \E j \in 1..(i - 1) : calls[p][j].fn = f /\ calls[p][j].rc >= 0
HasCalled(p, f) == IdxOf(p, f) # {}

\* The configuration calls that every launch makes before start-and-enter.
RequiredCalls ==
    {"krun_set_log_level", "krun_create_ctx", "krun_set_vm_config", "krun_set_root",
     "krun_set_gpu_options", "krun_set_passt_fd", "krun_set_workdir", "krun_set_env"}

\* All hypervisor configuration calls.
ConfigCalls ==
    RequiredCalls \cup {"krun_add_disk", "krun_add_vsock_port"}

\* C1: start-and-enter is called at most once, as the last hypervisor call of
\* the run, by a process that got LockAcquired, and only after set-log-level,
\* create-context, set-vm-config, set-root, set-gpu-options, set-passt-fd,
\* set-workdir and set-env each returned success and after a successful
\* add-disk for every selected image.
C1_StartEnterAfterFullConfig ==
    \A p \in Procs :
        /\ Cardinality(IdxOf(p, "krun_start_enter")) <= 1
        /\ \A i \in IdxOf(p, "krun_start_enter") :
             /\ i = Len(calls[p])
             /\ result[p] = "LockAcquired"
             /\ \A f \in RequiredCalls : SucceededBefore(p, f, i)
             /\ \A k \in 1..Len(disks[p].list) :
                  \E j \in 1..(i - 1) :
                     /\ calls[p][j].fn = "krun_add_disk"
                     /\ calls[p][j].rc >= 0
                     /\ calls[p][j].arg[2] = disks[p].list[k]

\* A launcher with two selected images has called start-and-enter.
C1_Witness ==
    \E p \in Procs :
        /\ HasCalled(p, "krun_start_enter")
        /\ Len(disks[p].list) = 2

\* C2: a configuration call that returned a negative code is the last
\* hypervisor call of its process (no later configuration call, no
\* start-and-enter), and the process has ended with a non-zero status.
C2_FailFast ==
    \A p \in Procs : \A i \in CallIdx(p) :
        (calls[p][i].fn \in ConfigCalls /\ calls[p][i].rc < 0)
            => /\ i = Len(calls[p])
               /\ pc[p] = "exited"
               /\ exit_code[p] # ExitOk
               /\ exit_code[p] # NoExit

\* A launcher whose attachment of a vsock port failed, after earlier calls
\* had succeeded.
C2_Witness ==
    \E p \in Procs : \E i \in CallIdx(p) :
        /\ calls[p][i].fn = "krun_add_vsock_port"
        /\ calls[p][i].rc < 0
        /\ i > 1

\* A process is past lock acquisition: it got LockAcquired and has not ended.
PastLock(p) == result[p] = "LockAcquired" /\ pc[p] # "exited"
Acquirers == {p \in Procs : result[p] = "LockAcquired"}
Requesters == {p \in Procs : result[p] # "none"}

MutualExclusion == Cardinality({p \in Procs : PastLock(p)}) <= 1

\* A process that did not get LockAcquired issued no hypervisor call, and
\* has ended only as LaunchRequested (status 0) or with a failure.
NonAcquirersOnlyForward ==
    \A p \in Procs :
        result[p] # "LockAcquired"
            => /\ calls[p] = << >>
               /\ pc[p] = "exited"
                    => \/ result[p] = "LaunchRequested" /\ exit_code[p] = ExitOk
                       \/ exit_code[p] = ExitErr

\* C3 as stated: at most one process at a time is past lock acquisition; of
\* two or more requests exactly one gets LockAcquired (none only when a
\* request failed); every other process ends as LaunchRequested or fails
\* without issuing a hypervisor call.
C3_ExactlyOneAcquirer ==
    /\ MutualExclusion
    /\ Cardinality(Requesters) >= 2
          => /\ Cardinality(Acquirers) <= 1
             /\ (\A p \in Requesters : result[p] # "Err") => Cardinality(Acquirers) = 1
    /\ NonAcquirersOnlyForward

\* C3 as amended: at most one process at a time is past lock acquisition, so
\* two processes both got LockAcquired only when one of them had ended (the
\* lock is released when its holder ends); a process that found the lock
\* held is not an acquirer and some other process is; every process that
\* did not get LockAcquired ends as LaunchRequested or fails without issuing
\* a hypervisor call.
C3_MutualExclusion ==
    /\ MutualExclusion
    /\ \A p, q \in Acquirers : p # q => (pc[p] = "exited" \/ pc[q] = "exited")
    /\ \A p \in Procs :
          (pc[p] = "forward" \/ result[p] = "LaunchRequested")
              => /\ p \notin Acquirers
                 /\ Acquirers \ {p} # {}
    /\ NonAcquirersOnlyForward

\* One launcher is in the virtual machine, another ended as LaunchRequested.
C3_Witness ==
    \E p, q \in Procs :
        /\ pc[p] = "in_vm"
        /\ result[q] = "LaunchRequested"
        /\ pc[q] = "exited"

\* C4: every hypervisor call was made while its process held the lock file,
\* and a process that got LockAcquired holds the lock, through its binding,
\* in every state until it has ended.
C4_LockHeldForCalls ==
    \A p \in Procs :
        /\ \A i \in CallIdx(p) : calls[p][i].held
        /\ calls[p] # << >> => result[p] = "LockAcquired"
        /\ (PastLock(p) /\ pc[p] # "match") => (lock = p /\ lock_file[p])

\* A launcher is in the virtual machine and holds the lock.
C4_Witness ==
    \E p \in Procs :
        /\ pc[p] = "in_vm"
        /\ lock = p
        /\ HasCalled(p, "krun_start_enter")

\* C5: a process has ended with status 0 only when launch_or_lock returned
\* LaunchRequested; a process that got LockAcquired and has ended, whether
\* before start-and-enter or after it returned any code, ended with a
\* failure status.
C5_ExitOkOnlyWhenForwarded ==
    \A p \in Procs :
        /\ exit_code[p] = ExitOk => result[p] = "LaunchRequested"
        /\ (result[p] = "LockAcquired" /\ pc[p] = "exited")
              => exit_code[p] \in {ExitErr, ExitPanic}
        /\ (HasCalled(p, "krun_start_enter") /\ pc[p] # "in_vm")
              => /\ pc[p] = "exited"
                 /\ exit_code[p] =
                      IF calls[p][Len(calls[p])].rc < 0 THEN ExitErr ELSE ExitPanic

\* start-and-enter returned a non-negative code and the process has ended.
C5_Witness ==
    \E p \in Procs :
        /\ HasCalled(p, "krun_start_enter")
        /\ calls[p][Len(calls[p])].rc >= 0
        /\ pc[p] = "exited"

\* C6: a started process whose real or effective user id is 0 never gets
\* beyond the first step: it asks for no lock and forwards nothing, its
\* affinity and resource limit are unchanged, it makes no hypervisor call,
\* and it ends with an error.
C6_RootRejected ==
    \A p \in Procs :
        (options[p].uid = 0 \/ options[p].euid = 0) /\ pc[p] # "idle"
            => /\ pc[p] \in {"start", "exited"}
               /\ pc[p] = "exited" => exit_code[p] = ExitErr
               /\ result[p] = "none"
               /\ lock # p
               /\ ~lock_file[p]
               /\ affinity[p] = Unpinned
               /\ nofile[p] = host.nofile_cur
               /\ calls[p] = << >>

\* A process with effective user id 0 and another real user id has ended.
C6_Witness ==
    \E p \in Procs :
        /\ options[p].euid = 0
        /\ options[p].uid # 0
        /\ pc[p] = "exited"

\* C7: the RAM passed to set-vm-config is the explicit value when given;
\* otherwise, with T the host total in MiB, it is the ceiling 32768 when
\* 0.8 * T >= 32768 and floor(0.8 * T) when below (T = 16384 gives 13107,
\* T = 65536 gives 32768), hence never above 32768.
C7_RamSizing ==
    \A p \in Procs : \A i \in IdxOf(p, "krun_set_vm_config") :
        LET r == calls[p][i].arg[2]
            T == host.ram_total
        IN  IF options[p].mem.some
            THEN r = options[p].mem.v
            ELSE /\ r <= 32768
                 /\ IF 8 * T >= 10 * 32768
                    THEN r = 32768
                    ELSE 10 * r <= 8 * T /\ 8 * T < 10 * (r + 1)
                 /\ T = 16384 => r = 13107
                 /\ T = 65536 => r = 32768

\* Without an override, a host with 64 GiB is given the ceiling.
C7_Witness ==
    \E p \in Procs : \E i \in IdxOf(p, "krun_set_vm_config") :
        /\ ~options[p].mem.some
        /\ host.ram_total = 65536
        /\ calls[p][i].arg[2] = 32768

\* The sum of the lengths of the groups of a CPU list.
RECURSIVE TotalCores(_)
TotalCores(l) == IF l = << >> THEN 0 ELSE Len(Head(l)) + TotalCores(Tail(l))

\* C8: the vCPU count passed to set-vm-config equals the total number of
\* cores of the selected CPU list, for every total.
C8_VcpusEqualTotalCores ==
    \A p \in Procs : \A i \in IdxOf(p, "krun_set_vm_config") :
        calls[p][i].arg[1] = TotalCores(cpu_list[p])

\* Some explicit image path does not exist on the host.
MissingExplicitImage(p) ==
    \E k \in 1..Len(options[p].fex_images) : options[p].fex_images[k] \notin host.exists

\* C9: when an explicit image path does not exist, the launch never gets
\* beyond the attachment of the disks and start-and-enter is never called.
C9_MissingImageAborts ==
    \A p \in Procs :
        MissingExplicitImage(p)
            => /\ ~HasCalled(p, "krun_set_root")
               /\ ~HasCalled(p, "krun_start_enter")

\* The images the launcher is to attach: the explicit paths, else the
\* existing ones of the two default paths in declared order.
ExpectedImages(p) ==
    IF options[p].fex_images # << >>
    THEN options[p].fex_images
    ELSE (IF "/usr/share/fex-emu/RootFS/default.erofs" \in host.exists
          THEN << "/usr/share/fex-emu/RootFS/default.erofs" >> ELSE << >>)
         \o
         (IF "/usr/share/fex-emu/overlays/mesa.erofs" \in host.exists
          THEN << "/usr/share/fex-emu/overlays/mesa.erofs" >> ELSE << >>)

IsAddDisk(c) == c.fn = "krun_add_disk"
AddDiskCalls(p) == SelectSeq(calls[p], IsAddDisk)

\* C10: the add-disk calls are, in order, the expected images, each with its
\* path as label and read-only; only the last one made may have failed; once
\* the launcher has gone on to set-root, every expected image was attached;
\* with nothing to attach the launcher goes from the resource limit to
\* set-root without failing.
C10_DisksAttachedInOrder ==
    \A p \in Procs :
        LET adds == AddDiskCalls(p)
            want == ExpectedImages(p)
        IN  /\ Len(adds) <= Len(want)
            /\ \A k \in 1..Len(adds) :
                 /\ adds[k].arg = << want[k], want[k], TRUE >>
                 /\ k < Len(adds) => adds[k].rc >= 0
            /\ HasCalled(p, "krun_set_root")
                 => /\ Len(adds) = Len(want)
                    /\ \A k \in 1..Len(adds) : adds[k].rc >= 0
            /\ (want = << >> /\ pc[p] = "exited" /\ nofile[p] = host.nofile_max
                  /\ HasCalled(p, "krun_set_vm_config"))
                 => HasCalled(p, "krun_set_root")

\* No explicit image, only the second default exists: it alone is attached
\* and the launcher has gone on.
C10_Witness ==
    \E p \in Procs :
        /\ options[p].fex_images = << >>
        /\ host.exists \cap {DefaultDisks[1], DefaultDisks[2]} = {DefaultDisks[2]}
        /\ Len(AddDiskCalls(p)) = 1
        /\ HasCalled(p, "krun_set_root")

\* The calls of process p that attach the vsock port.
VsockCalls(p, port) ==
    {i \in CallIdx(p) : calls[p][i].fn = "krun_add_vsock_port" /\ calls[p][i].arg[1] = port}

\* The host resource of each optional attachment is present.
PulsePresent == host.xdg_set /\ PulsePath \in host.exists
HidpipePresent == host.xdg_set /\ HidpipePath \in host.exists
X11Present ==
    /\ host.display_set
    /\ Len(host.display) >= 1
    /\ host.display[1] = ":"
    /\ SubSeq(host.display, 2, Len(host.display)) \in host.x11_sockets

\* The three attachment steps of process p are over.
AttachmentsDone(p) ==
    pc[p] \in {"user", "set_workdir", "find_exec", "write_config", "set_env",
               "start_enter", "in_vm"}
      \/ HasCalled(p, "krun_set_workdir")

\* C15: port 3333 is attached exactly when $XDG_RUNTIME_DIR/pulse/native
\* exists, port 3334 exactly when $XDG_RUNTIME_DIR/hidpipe exists, port 6000
\* exactly when DISPLAY starts with ':' and /tmp/.X11-unix/X<rest> exists;
\* a step whose resource is absent makes no call and goes on to the next
\* step, so absence neither fails the launch nor keeps it from
\* start-and-enter.
C15_OptionalAttachments ==
    /\ [](\A p \in Procs :
            /\ VsockCalls(p, PulsePort) # {} => PulsePresent
            /\ VsockCalls(p, HidpipePort) # {} => HidpipePresent
            /\ VsockCalls(p, X11Port) # {} => X11Present
            /\ \A i \in VsockCalls(p, PulsePort) :
                 calls[p][i].arg = <<PulsePort, PulsePath>>
            /\ \A i \in VsockCalls(p, HidpipePort) :
                 calls[p][i].arg = <<HidpipePort, HidpipePath>>
            /\ \A i \in VsockCalls(p, X11Port) :
                 calls[p][i].arg =
                   <<X11Port, <<"/tmp/.X11-unix/X">>
                                 \o SubSeq(host.display, 2, Len(host.display))>>
            /\ AttachmentsDone(p) =>
                 /\ Cardinality(VsockCalls(p, PulsePort)) = (IF PulsePresent THEN 1 ELSE 0)
                 /\ Cardinality(VsockCalls(p, HidpipePort)) = (IF HidpipePresent THEN 1 ELSE 0)
                 /\ Cardinality(VsockCalls(p, X11Port)) = (IF X11Present THEN 1 ELSE 0)
                 /\ \A port \in {PulsePort, HidpipePort, X11Port} :
                      \A i \in VsockCalls(p, port) : calls[p][i].rc >= 0)
    /\ [][\A p \in Procs :
            /\ (pc[p] = "vsock_pulse" /\ ~PulsePresent /\ pc'[p] # pc[p])
                 => pc'[p] = "vsock_hidpipe" /\ calls'[p] = calls[p]
            /\ (pc[p] = "vsock_hidpipe" /\ ~HidpipePresent /\ pc'[p] # pc[p])
                 => pc'[p] = "vsock_x11" /\ calls'[p] = calls[p]
            /\ (pc[p] = "vsock_x11" /\ ~X11Present /\ pc'[p] # pc[p])
                 => pc'[p] = "user" /\ calls'[p] = calls[p]]_vars

\* Nothing to attach, and the launcher has entered the virtual machine.
C15_Witness ==
    \E p \in Procs :
        /\ ~PulsePresent /\ ~HidpipePresent /\ ~X11Present
        /\ pc[p] = "in_vm"
        /\ \A i \in CallIdx(p) : calls[p][i].fn # "krun_add_vsock_port"

\* The number written as the decimal digits s.
DigitValue(c) == CHOOSE d \in 0..9 : Digits[d + 1] = c
RECURSIVE ParseDecimal(_)
ParseDecimal(s) ==
    IF s = << >> THEN 0
    ELSE 10 * ParseDecimal(SubSeq(s, 1, Len(s) - 1)) + DigitValue(s[Len(s)])
\* s is the decimal representation of n, without leading zeros.
IsDecimalOf(s, n) ==
    /\ Len(s) >= 1
    /\ \A i \in DOMAIN s : \E d \in 0..9 : Digits[d + 1] = s[i]
    /\ Len(s) > 1 => s[1] # "0"
    /\ ParseDecimal(s) = n

\* C16: the Cmd of the written configuration is exactly [krun-guest path,
\* user name, decimal real user id, decimal group id, krun-server path,
\* command, arg1, ..., argn], in this order.
C16_GuestArgv ==
    \A p \in Procs :
        config_file[p].written =>
            LET cmd == config_file[p].json.Config.Cmd
                o == options[p]
            IN  /\ Len(cmd) = 6 + Len(o.command_args)
                /\ cmd[1] \in {<<d, "krun-guest">> : d \in KrunExecDirs}
                /\ cmd[2] = host.user
                /\ IsDecimalOf(cmd[3], o.uid)
                /\ IsDecimalOf(cmd[4], o.gid)
                /\ cmd[5] \in {<<d, "krun-server">> : d \in KrunExecDirs}
                /\ cmd[6] = o.command
                /\ \A i \in 1..Len(o.command_args) : cmd[6 + i] = o.command_args[i]

\* Real user id 1000 with effective user id 1001, group id 100, two
\* arguments; the launcher has entered the virtual machine.
C16_Witness ==
    \E p \in Procs :
        /\ pc[p] = "in_vm"
        /\ options[p].euid = 1001
        /\ config_file[p].json.Config.Cmd =
             << <<"/usr/bin/", "krun-guest">>, "alice", <<"1", "0", "0", "0">>,
                <<"1", "0", "0">>, <<"/usr/local/bin/", "krun-server">>, "cmd",
                "b", "a" >>

ServerPortKey == "KRUN_SERVER_PORT"

\* What C19 says of the set-env array, of the file and of Cmd: the array
\* has the one entry KRUN_CONFIG=<path of the temporary file> and the null
\* terminator; the file is written before set-env is called and exists when
\* start-and-enter is called.
OutOfBand(p) ==
    /\ \A i \in IdxOf(p, "krun_set_env") :
         /\ calls[p][i].arg = << <<"KRUN_CONFIG=", config_file[p].path>>, "NULL" >>
         /\ config_file[p].path \in TempPaths
    /\ (pc[p] = "set_env" \/ HasCalled(p, "krun_set_env")) =>
         /\ config_file[p].written
         /\ config_file[p].json.Config.Cmd = krun_guest_args[p]
    /\ pc[p] \in {"set_env", "start_enter", "in_vm"} => ConfigFileExists(p)

\* C19 (as stated): Env holds every prepared variable as KEY=VALUE, and
\* KRUN_SERVER_PORT=<control port>.
C19_EnvOutOfBand ==
    \A p \in Procs :
        /\ OutOfBand(p)
        /\ config_file[p].written =>
             LET env == config_file[p].json.Config.Env
                 prepared == config_file[p].prepared
             IN  /\ \A k \in DOMAIN prepared : <<k, "=", prepared[k]>> \in env
                 /\ \E e \in env :
                      e[1] = ServerPortKey /\ IsDecimalOf(e[3], options[p].server_port)

\* C19 (amended): Env holds KRUN_SERVER_PORT=<control port> once, and every
\* prepared variable other than KRUN_SERVER_PORT as KEY=VALUE, and nothing
\* else: a prepared KRUN_SERVER_PORT is replaced.
C19_EnvOutOfBandPortWins ==
    \A p \in Procs :
        /\ OutOfBand(p)
        /\ config_file[p].written =>
             LET env == config_file[p].json.Config.Env
                 prepared == config_file[p].prepared
                 others == DOMAIN prepared \ {ServerPortKey}
             IN  /\ \A k \in others : <<k, "=", prepared[k]>> \in env
                 /\ \A e \in env :
                      /\ e[2] = "="
                      /\ IF e[1] = ServerPortKey
                         THEN IsDecimalOf(e[3], options[p].server_port)
                         ELSE e[1] \in others /\ e[3] = prepared[e[1]]
                 /\ Cardinality(env) = Cardinality(others) + 1

\* Three prepared variables, KRUN_SERVER_PORT=9 among them, control port
\* 3334; set-env was called and the launcher has entered the virtual machine.
C19_Witness ==
    \E p \in Procs :
        /\ pc[p] = "in_vm"
        /\ HasCalled(p, "krun_set_env")
        /\ config_file[p].prepared = EnvValues
        /\ options[p].server_port = 3334
        /\ config_file[p].json.Config.Env =
             { <<"TERM", "=", <<"xterm">> >>, <<"HOME", "=", <<"/home/alice">> >>,
               <<"KRUN_SERVER_PORT", "=", <<"3", "3", "3", "4">> >> }
        /\ ConfigFileExists(p)

EarlyCalls == {"krun_set_log_level", "krun_create_ctx"}

\* C20 (as stated): the pinning comes before create-context and every other
\* hypervisor call: a process about to pin has made no hypervisor call.
C20_PinnedBeforeCreateCtx ==
    \A p \in Procs :
        /\ pc[p] = "setaffinity" => calls[p] = << >>
        /\ HasCalled(p, "krun_create_ctx") => affinity[p].pinned

\* C20 (amended): set-log-level and create-context are called before the
\* pinning; the process is pinned to the selected CPU set before
\* set-vm-config and before every later hypervisor call, start-and-enter
\* included.
C20_PinnedBeforeVmConfig ==
    \A p \in Procs :
        /\ pc[p] = "setaffinity" =>
             /\ Len(calls[p]) = 2
             /\ calls[p][1].fn = "krun_set_log_level" /\ calls[p][1].rc >= 0
             /\ calls[p][2].fn = "krun_create_ctx" /\ calls[p][2].rc >= 0
             /\ ~affinity[p].pinned
        /\ affinity[p].pinned =>
             /\ HasCalled(p, "krun_create_ctx")
             /\ affinity[p].cpus = CpuSetOf(cpu_list[p])
        /\ \A i \in CallIdx(p) :
             calls[p][i].fn \notin EarlyCalls => affinity[p].pinned
        /\ pc[p] \in {"set_vm_config", "in_vm"} => affinity[p].pinned

\* Pinned to the four performance cores, and entered the virtual machine.
C20_Witness ==
    \E p \in Procs :
        /\ pc[p] = "in_vm"
        /\ affinity[p] = [pinned |-> TRUE, cpus |-> {4, 5, 6, 7}]
        /\ calls[p][2].fn = "krun_create_ctx"
        /\ calls[p][3].fn = "krun_set_vm_config"

(***************************************************************************)
(* Properties of the guest bootstrap.                                      *)
(***************************************************************************)
\* The per-device directories d1..dn, in the order of discovery: one for
\* each entry of the /dev listing whose name starts with "vd".
RECURSIVE Discovered(_)
Discovered(listing) ==
    IF listing = << >> THEN << >>
    ELSE IF StartsWith(Head(listing), <<"v", "d">>)
         THEN <<FexDir \o <<Head(listing)>> >> \o Discovered(Tail(listing))
         ELSE Discovered(Tail(listing))

\* "lowerdir=dn:...:d1" for the directories d = d1..dn.
ReverseLowerdir(d) ==
    LET n == Len(d)
    IN  <<"lowerdir=">> \o
        [i \in 1..(2 * n - 1) |-> IF i % 2 = 1 THEN d[n - (i - 1) \div 2] ELSE ":"]

OpsOf(kind) == SelectSeq(ops, LAMBDA o : o.op = kind)
OverlayMounts == SelectSeq(ops, LAMBDA o : o.op = "mount" /\ o.fstype = "overlay")

\* The composition step of mount_fex_rootfs is over and did not fail.
Composed == gpc = "fex_config" \/ fex_result = "ok"

\* C11: with n >= 2 devices the overlay is mounted read-only at the rootfs
\* path with lowerdir = the per-device directories joined by ':' in reverse
\* order of discovery; with one device there is no overlay and the rootfs
\* path is a symbolic link to its directory; with none there is neither.
C11_RootfsComposition ==
    LET d == Discovered(genv.dev)
        n == Len(d)
    IN  /\ \A i \in DOMAIN OverlayMounts :
             /\ n >= 2
             /\ OverlayMounts[i].target = DirRootfs
             /\ OverlayMounts[i].flags = {"RDONLY"}
             /\ OverlayMounts[i].data = ReverseLowerdir(d)
        /\ \A i \in DOMAIN OpsOf("symlink") :
             /\ n = 1
             /\ OpsOf("symlink")[i].source = d[1]
             /\ OpsOf("symlink")[i].target = DirRootfs
        /\ Composed =>
             /\ Len(OverlayMounts) = (IF n >= 2 THEN 1 ELSE 0)
             /\ Len(OpsOf("symlink")) = (IF n = 1 THEN 1 ELSE 0)

\* Three devices found as vd0, vd1, vd2: the overlay has vd2:vd1:vd0.
C11_Witness ==
    /\ genv.dev = <<"vd0", "vd1", "vd2">>
    /\ fex_result = "ok"
    /\ Len(OverlayMounts) = 1
    /\ OverlayMounts[1].data =
         <<"lowerdir=", <<"run", "fex-emu", "vd2">>, ":", <<"run", "fex-emu", "vd1">>,
           ":", <<"run", "fex-emu", "vd0">> >>

\* C12: a failure of any stage of mount_fex_rootfs is not fatal: the
\* bootstrap never ends inside mount_fex_rootfs; once /var/run is mounted
\* it ends only after mount_fex_rootfs has returned to mount_filesystems.
C12_FexFailureNonFatal ==
    (gpc = "done" /\ ops # << >>) => fex_result # "none"

\* Paths of the guest at which the bootstrap mounts something.
MountTargets == {o.target : o \in {ops[i] : i \in DOMAIN ops}} \cup {X11Dir, EtcResolv}

HostBound == \E i \in DOMAIN ops : ops[i].op = "bind"

\* C13: the view at /run/krun-host is not affected by the mounts of the
\* guest: once the host root is bound there, every path at which the
\* bootstrap mounts shows, below /run/krun-host, the directory entry of the
\* host file system; when /tmp/.X11-unix exists, after completion the
\* private tmpfs is seen at /tmp/.X11-unix and the host directory at
\* /run/krun-host/tmp/.X11-unix.
C13_HostViewUnaffected ==
    /\ HostBound =>
         \A q \in MountTargets :
            View(mounts, HostPath \o q) = [fs |-> HostFs, path |-> q]
    /\ (gstatus = "ok" /\ genv.x11) =>
         /\ ops[Len(ops)] = MakeTmpfs(X11Dir)
         /\ View(mounts, X11Dir) = [fs |-> Len(mounts), path |-> << >>]
         /\ View(mounts, HostPath \o X11Dir) = [fs |-> HostFs, path |-> X11Dir]

\* The bootstrap has completed where /tmp/.X11-unix exists.
C13_Witness ==
    /\ gstatus = "ok"
    /\ genv.x11
    /\ View(mounts, X11Dir).fs # HostFs
    /\ View(mounts, HostPath \o X11Dir).fs = HostFs

\* The file seen at /etc/resolv.conf and the placeholder file.
ResolvSeen == View(mounts, EtcResolv)
Placeholder == [fs |-> HostFs, path |-> TmpResolv]

\* C14: in every state /etc/resolv.conf shows the complete original file or
\* the complete (empty) placeholder; the original file keeps its content
\* and no operation creates, writes or removes at its path; what the path
\* shows changes only in the one move_mount step, from the original to the
\* placeholder.
C14_ResolvReplacedAtomically ==
    /\ [](/\ ResolvSeen \in DOMAIN files
          /\ \/ ResolvSeen = OriginalResolv /\ files[ResolvSeen] = "original"
             \/ ResolvSeen = Placeholder /\ files[ResolvSeen] = "empty"
          /\ files[OriginalResolv] = "original"
          /\ \A i \in DOMAIN ops :
               ops[i].op \in {"create", "write", "unlink", "mount", "bind"}
                 => ops[i].target # EtcResolv)
    /\ [][View(mounts', EtcResolv) # ResolvSeen =>
            /\ gpc = "resolv_move_mount"
            /\ \E o \in {ops'[Len(ops')]} :
                 /\ ops' = Append(ops, o)
                 /\ o.op = "move_mount"
                 /\ o.target = EtcResolv
            /\ ResolvSeen = OriginalResolv
            /\ View(mounts', EtcResolv) = Placeholder]_vars

\* The placeholder has replaced the original, which is intact.
C14_Witness ==
    /\ ResolvSeen = Placeholder
    /\ files[Placeholder] = "empty"
    /\ files[OriginalResolv] = "original"
    /\ gstatus = "ok"

\* The per-device directories in ascending order of device name.
SortedDirs == << FexDir \o <<"vd0">>, FexDir \o <<"vd1">>, FexDir \o <<"vd2">> >>
Pos(x) == CHOOSE k \in DOMAIN SortedDirs : SortedDirs[k] = x
Ascending(d) == \A i, j \in DOMAIN d : i < j => Pos(d[i]) < Pos(d[j])

\* The layers of an overlay from the top-most to the lowest: the entries
\* of its lowerdir list, an earlier entry being above a later one.
Layers(o) == [k \in 1..(Len(o.data) \div 2) |-> o.data[2 * k]]

\* C17 (as stated): with devices discovered in ascending order of name, the
\* directory of vd0, the first device discovered, is the top-most layer.
C17_Vd0TopMost ==
    \A i \in DOMAIN OverlayMounts :
        LET d == Discovered(genv.dev)
        IN  (Ascending(d) /\ d[1] = SortedDirs[1])
              => Layers(OverlayMounts[i])[1] = SortedDirs[1]

\* C17 (amended): the layers are the devices in reverse order of discovery:
\* the device discovered last is the top-most layer and the device
\* discovered first (vd0, with ascending discovery) is the lowest one.
C17_LastDiscoveredTopMost ==
    \A i \in DOMAIN OverlayMounts :
        LET d == Discovered(genv.dev)
            l == Layers(OverlayMounts[i])
        IN  /\ Len(l) = Len(d)
            /\ l[1] = d[Len(d)]
            /\ l[Len(l)] = d[1]
            /\ l[1] # d[1]
            /\ \A j \in DOMAIN d : l[Len(d) + 1 - j] = d[j]

\* vd0 and vd1 discovered in this order: vd1 is on top, vd0 below.
C17_Witness ==
    /\ Discovered(genv.dev) = << SortedDirs[1], SortedDirs[2] >>
    /\ Len(OverlayMounts) = 1
    /\ Layers(OverlayMounts[1]) = << SortedDirs[2], SortedDirs[1] >>

MountKinds == {"mount", "bind", "open_tree", "move_mount"}

\* C18 (as stated): the bind mount of the host root is the last mount
\* operation: no mount operation follows it.
C18_BindIsLastMount ==
    \A i, j \in DOMAIN ops :
        (ops[i].op = "bind" /\ i < j) => ops[j].op \notin MountKinds

\* C18 (amended): there is at most one bind mount, of the host root onto
\* /run/krun-host; every mount operation other than the tmpfs over
\* /tmp/.X11-unix precedes it; the only operation that follows it is that
\* tmpfs mount, which is made after it whenever /tmp/.X11-unix exists and
\* the bootstrap completes.
C18_BindLastButX11 ==
    /\ \A i, j \in DOMAIN ops :
         (ops[i].op = "bind" /\ i < j)
            => /\ ops[j] = MakeTmpfs(X11Dir)
               /\ j = Len(ops)
               /\ genv.x11
    /\ \A i, j \in DOMAIN ops :
         (ops[i].op = "bind" /\ j < i) => ops[j] # MakeTmpfs(X11Dir)
    /\ \A i \in DOMAIN ops :
         ops[i].op = "bind"
            => /\ ops[i].source = << >>
               /\ ops[i].target = HostPath
               /\ \A j \in DOMAIN ops : ops[j].op = "bind" => j = i
    /\ gstatus = "ok" =>
         /\ HostBound
         /\ genv.x11 => /\ ops[Len(ops)] = MakeTmpfs(X11Dir)
                        /\ ops[Len(ops) - 1].op = "bind"
         /\ ~genv.x11 => ops[Len(ops)].op = "bind"

\* Completed with /tmp/.X11-unix: the tmpfs mount follows the bind mount.
C18_Witness ==
    /\ gstatus = "ok"
    /\ genv.x11
    /\ Len(images) >= 2
    /\ ops[Len(ops) - 1].op = "bind"
    /\ ops[Len(ops)].op = "mount"

\* The operations that write a Config.json redirecting RootFS to the rootfs
\* path.
ConfigWrites == {i \in DOMAIN ops : ops[i].op = "write" /\ ops[i].data = FexConfigJson}

\* Before operation i the rootfs path was made: as the mount point of the
\* overlay, or as a symbolic link to a directory on which an image is
\* mounted.  The base directory is created by the bootstrap itself, so
\* nothing else is below it.
RootfsMadeBefore(i) ==
    \E j \in 1..(i - 1) :
        \/ /\ ops[j].op = "mount"
           /\ ops[j].fstype = "overlay"
           /\ ops[j].target = DirRootfs
        \/ /\ ops[j].op = "symlink"
           /\ ops[j].target = DirRootfs
           /\ \E k \in 1..(j - 1) :
                /\ ops[k].op = "mount"
                /\ ops[k].fstype = "erofs"
                /\ ops[k].target = ops[j].source

\* C21: whenever a Config.json redirecting RootFS to /run/fex-emu/rootfs is
\* written, that path exists, as the overlay mount point or as a symbolic
\* link to a mounted image, whatever the number of images discovered.
C21_RootfsExistsWhenConfigWritten ==
    \A i \in ConfigWrites : RootfsMadeBefore(i)

====
